---- MODULE Spec2Model ----
(***************************************************************************)
(* The bespoke logic of the two ANN notebooks (scikit-learn digits and     *)
(* Keras MNIST): model_accuracy, plot_confusion_matrix, the cells that     *)
(* call them, the test-result grid, the StandardScaler cell and the        *)
(* to_categorical cell.                                                    *)
(*                                                                         *)
(* Arrays are functions on 0..n-1, as in the source (numpy indexing).      *)
(* Floating-point values are exact rationals [num, den] in lowest terms;   *)
(* [num |-> 0, den |-> 0] is NaN (numpy's 0/0).  The quotients compared    *)
(* are quotients of small counts: two different ones differ by far more    *)
(* than a rounding error, so the floats compare as the rationals do.       *)
(***************************************************************************)
EXTENDS Integers, Sequences, FiniteSets, TLC

VARIABLES
    nb,          \* which notebook runs: "sklearn" or "keras"
    pc,          \* the cell (or loop position) about to run
    loaded,      \* labels of the test set as the data set gave them
    y_test,      \* labels of the test set (keras: one-hot rows after to_categorical)
    predicted,   \* predicted labels of the test set
    cm,          \* the confusion matrix handed to plot_confusion_matrix
    classes,     \* argument classes of plot_confusion_matrix
    normalize,   \* argument normalize of plot_confusion_matrix
    fig,         \* what plot_confusion_matrix has drawn
    accuracy,    \* what model_accuracy returned (or how it failed)
    expected,    \* expected labels of the test-result grid
    grid,        \* the labels drawn on the grid so far, in drawing order
    X_train,     \* training samples (one feature column)
    y_train,     \* training labels
    X_test,      \* test samples, per run of the scaler notebook
    scaler,      \* fitted StandardScaler parameters, per run
    X_train_scaled,
    X_test_scaled,
    mlp          \* the fitted classifier, per run

vars == << nb, pc, loaded, y_test, predicted, cm, classes, normalize, fig, accuracy,
           expected, grid, X_train, y_train, X_test, scaler, X_train_scaled,
           X_test_scaled, mlp >>

(***************************************************************************)
(* Bounds of the model.                                                    *)
(***************************************************************************)
\* number of digit classes (10 in the notebooks); more than two, so that the
\* classes differ from the two values of a one-hot matrix
NumClasses == 3
\* number of images of the test-result grid (64 in the notebooks)
GridCells == 2
\* longest array handed to model_accuracy on its own
MaxLen == 3
\* largest count in a confusion matrix handed to plot_confusion_matrix on its own
MaxCount == 2
\* largest pixel value of a sample (16 in the digits data)
MaxPixel == 1
\* number of training samples
TrainLen == 2

\* the test set is longer than the grid (360 and 10000 samples against 64)
TestLen == GridCells + 1
Labels == 0 .. (NumClasses - 1)
\* shapes of the matrices handed to plot_confusion_matrix on its own
Dims == {1, 2}

None == [kind |-> "none"]

\* the variables of the scaler cells
scalerVars == << X_train, y_train, X_test, scaler, X_train_scaled,
                 X_test_scaled, mlp >>

(***************************************************************************)
(* Arrays and numbers.                                                     *)
(***************************************************************************)
Arr(n, S) == [0 .. (n - 1) -> S]
ArrUpTo(n, S) == UNION {Arr(k, S) : k \in 0 .. n}
Size(a) == Cardinality(DOMAIN a)

RECURSIVE GCD(_, _)
GCD(a, b) == IF b = 0 THEN a ELSE GCD(b, a % b)

NaN == [num |-> 0, den |-> 0]
\* a / b in floating point, for counts a >= 0, b >= 0
Frac(a, b) ==
    IF b = 0 THEN NaN
    ELSE LET g == GCD(a, b) IN [num |-> a \div g, den |-> b \div g]
IsNaN(v) == v.den = 0
\* IEEE comparison: any comparison with NaN is false
Gt(v, w) == ~IsNaN(v) /\ ~IsNaN(w) /\ v.num * w.den > w.num * v.den
HalfOf(v) == IF IsNaN(v) THEN NaN ELSE Frac(v.num, 2 * v.den)

RECURSIVE SumTo(_, _)
\* f[0] + ... + f[n-1]
SumTo(f, n) == IF n = 0 THEN 0 ELSE SumTo(f, n - 1) + f[n - 1]

(***************************************************************************)
(* model_accuracy(pred, target), on numpy arrays.                          *)
(***************************************************************************)
\* numpy broadcasting of two one-dimensional shapes
Broadcastable(la, lb) == la = lb \/ la = 1 \/ lb = 1
BroadcastLen(la, lb) == IF la = 1 THEN lb ELSE la

\* comparison = pred == target: elementwise, the shorter operand of length 1
\* broadcast over the other
Comparison(pred, target) ==
    LET la == Size(pred)
        lb == Size(target)
    IN  [k \in 0 .. (BroadcastLen(la, lb) - 1) |->
            pred[IF la = 1 THEN 0 ELSE k] = target[IF lb = 1 THEN 0 ELSE k]]

\* correct = comparison.sum(): True counts 1 and False 0
CorrectCount(pred, target) ==
    LET c == Comparison(pred, target)
    IN  SumTo([k \in DOMAIN c |-> IF c[k] THEN 1 ELSE 0], Size(c))

Round2Truncating(a, n) == a \div n

\* round(a / (100 n), 2) in hundredths, for a >= 0 and n > 0: the nearest
\* hundredth, a tie going to the even one
Round2(a, n) ==
    LET q == a \div n
        r == a % n
    IN  IF 2 * r < n THEN q
        ELSE IF 2 * r > n THEN q + 1
        ELSE IF q % 2 = 0 THEN q ELSE q + 1

\* How `pred == target` fails on shapes that do not broadcast depends on the
\* numpy build: older builds return the Python bool False (and .sum() raises
\* AttributeError), newer ones raise ValueError in the comparison.
NumpyBuilds == {"legacy", "strict"}

ModelAccuracy(pred, target, np) ==
    LET n == Size(target)
    IN  IF ~Broadcastable(Size(pred), n)
        THEN [kind |-> "error",
              exc |-> IF np = "legacy" THEN "AttributeError" ELSE "ValueError"]
        ELSE IF n = 0
        \* correct / n is numpy's 0 / 0: nan (a warning, no exception)
        THEN [kind |-> "nan"]
        ELSE [kind |-> "value",
              hundredths |-> Round2(100 * CorrectCount(pred, target), n)]

\* The call model_accuracy(predicted, y_test), then the cell named by `next`
AccuracyCall(next) ==
    /\ pc = "accuracy"
    /\ \E np \in NumpyBuilds :
          accuracy' = ModelAccuracy(predicted, y_test, np)
    /\ pc' = next
    /\ UNCHANGED << nb, loaded, y_test, predicted, cm, classes, normalize,
                    fig, expected, grid, scalerVars >>

(***************************************************************************)
(* SpecAccuracy: model_accuracy applied to any two label arrays of up to   *)
(* MaxLen elements.                                                        *)
(***************************************************************************)
InitAccuracy ==
    /\ nb = "sklearn"
    /\ pc = "accuracy"
    /\ predicted \in ArrUpTo(MaxLen, Labels)
    /\ y_test \in ArrUpTo(MaxLen, Labels)
    /\ accuracy = None /\ loaded = None
    /\ cm = None /\ classes = None /\ normalize = FALSE /\ fig = None
    /\ expected = None /\ grid = << >>
    /\ X_train = None /\ y_train = None /\ X_test = None /\ scaler = None
    /\ X_train_scaled = None /\ X_test_scaled = None /\ mlp = None

ModelAccuracyReturns == AccuracyCall("returned")

NextAccuracy == ModelAccuracyReturns

SpecAccuracy == InitAccuracy /\ [][NextAccuracy]_vars

\* C1: for non-empty pred and target of equal length n, model_accuracy returns
\* (number of positions i with pred[i] = target[i]) / n rounded to two decimal
\* places: a value in hundredths h with |100 * matches - h * n| <= n / 2.
C1_AccuracyIsRoundedFraction ==
    (pc = "returned" /\ Size(predicted) = Size(y_test) /\ Size(y_test) > 0) =>
        LET n == Size(y_test)
            matches == Cardinality({i \in 0 .. (n - 1) : predicted[i] = y_test[i]})
            d == 100 * matches - accuracy.hundredths * n
        IN  /\ accuracy.kind = "value"
            /\ 2 * d <= n
            /\ 2 * d >= -n

\* a case where rounding changes the digits: 2 of 3 correct, 0.67
C1_Witness ==
    /\ pc = "returned"
    /\ Size(predicted) = 3 /\ Size(y_test) = 3
    /\ Cardinality({i \in 0 .. 2 : predicted[i] = y_test[i]}) = 2
    /\ accuracy = [kind |-> "value", hundredths |-> 67]

\* C2: the accuracy calculation fails (the InvalidInput condition: an error of
\* any name is taken for it) and returns no number whenever the lengths of
\* predictions and targets differ or either input is empty.
C2_FailsOnBadLengths ==
    (pc = "returned" /\ (Size(predicted) # Size(y_test)
                          \/ Size(predicted) = 0 \/ Size(y_test) = 0)) =>
        accuracy.kind = "error"

(***************************************************************************)
(* plot_confusion_matrix(cm, classes, normalize): what it hands to         *)
(* matplotlib, call by call.  A matrix is an array of rows.                *)
(***************************************************************************)
Shape0(m) == Size(m)
Shape1(m) == Size(m[0])

\* the integer matrix as matplotlib receives it
RawValues(m) == [i \in DOMAIN m |-> [j \in DOMAIN m[i] |-> Frac(m[i][j], 1)]]

\* cm.sum(axis=1)[i]
RowSum(m, i) == SumTo(m[i], Size(m[i]))
ColSum(m, j) == SumTo([i \in DOMAIN m |-> m[i][j]], Size(m))

NormalizeByColumns(m) ==
    [i \in DOMAIN m |-> [j \in DOMAIN m[i] |-> Frac(m[i][j], ColSum(m, j))]]

NormalizeByTotal(m) ==
    LET total == SumTo([i \in DOMAIN m |-> RowSum(m, i)], Size(m))
    IN  [i \in DOMAIN m |-> [j \in DOMAIN m[i] |-> Frac(m[i][j], total)]]

\* cm.astype('float') / cm.sum(axis=1)[:, np.newaxis]
NormalizeRows(m) ==
    [i \in DOMAIN m |-> [j \in DOMAIN m[i] |-> Frac(m[i][j], RowSum(m, i))]]

\* plt.imshow(cm, ...) comes first in the body, when cm is still the argument
ImshowData(m, norm) == RawValues(m)

\* cm as the loop over the cells reads it, after `if normalize:`
CellValues(m, norm) == IF norm THEN NormalizeRows(m) ELSE RawValues(m)

\* cm.max(): numpy's max is NaN as soon as one element is
MatMax(v) ==
    LET cells == {<<i, j>> \in (DOMAIN v) \X (DOMAIN v[0]) : TRUE}
    IN  IF \E c \in cells : IsNaN(v[c[1]][c[2]]) THEN NaN
        ELSE LET top == CHOOSE c \in cells :
                          \A d \in cells : ~Gt(v[d[1]][d[2]], v[c[1]][c[2]])
             IN  v[top[1]][top[2]]

\* thresh = cm.max() / 2.
Thresh(v) == HalfOf(MatMax(v))

TextColorAtLeast(value, thresh) ==
    IF Gt(value, thresh) \/ value = thresh THEN "white" ELSE "black"

\* color="white" if cm[i, j] > thresh else "black"
TextColor(value, thresh) == IF Gt(value, thresh) THEN "white" ELSE "black"

TickMarksFromOne(cls) == [k \in 0 .. (Size(cls) - 1) |-> k + 1]

\* tick_marks = np.arange(len(classes))
TickMarks(cls) == [k \in 0 .. (Size(cls) - 1) |-> k]

TextsSwapped(v) ==
    LET R == Shape0(v)
        C == Shape1(v)
        th == Thresh(v)
    IN  [k \in 1 .. (R * C) |->
            LET i == (k - 1) \div C
                j == (k - 1) % C
            IN  [x |-> i, y |-> j, s |-> v[i][j],
                 color |-> TextColor(v[i][j], th)]]

\* the plt.text calls of the loop over itertools.product(range(shape[0]),
\* range(shape[1])), in order: rows outermost
Texts(v) ==
    LET R == Shape0(v)
        C == Shape1(v)
        th == Thresh(v)
    IN  [k \in 1 .. (R * C) |->
            LET i == (k - 1) \div C
                j == (k - 1) % C
            IN  [x |-> j, y |-> i, s |-> v[i][j],
                 color |-> TextColor(v[i][j], th)]]

PlotConfusionMatrix(m, cls, norm) ==
    [ kind   |-> "figure",
      image  |-> ImshowData(m, norm),
      xticks |-> [locs |-> TickMarks(cls), labels |-> cls],
      yticks |-> [locs |-> TickMarks(cls), labels |-> cls],
      texts  |-> Texts(CellValues(m, norm)),
      ylabel |-> "True label",
      xlabel |-> "Predicted label" ]

(***************************************************************************)
(* SpecPlot: plot_confusion_matrix applied to any matrix of counts up to   *)
(* MaxCount with the shapes of Dims, any class labels and either value of  *)
(* normalize.                                                              *)
(***************************************************************************)
Matrices == UNION {Arr(r, Arr(c, 0 .. MaxCount)) : <<r, c>> \in Dims \X Dims}

InitPlot ==
    /\ nb = "sklearn"
    /\ pc = "plot"
    /\ cm \in Matrices
    /\ classes \in ArrUpTo(NumClasses, Labels)
    /\ normalize \in BOOLEAN
    /\ fig = None
    /\ y_test = None /\ predicted = None /\ accuracy = None /\ loaded = None
    /\ expected = None /\ grid = << >>
    /\ X_train = None /\ y_train = None /\ X_test = None /\ scaler = None
    /\ X_train_scaled = None /\ X_test_scaled = None /\ mlp = None

PlotConfusionMatrixReturns ==
    /\ pc = "plot"
    /\ fig' = PlotConfusionMatrix(cm, classes, normalize)
    /\ pc' = "shown"
    /\ UNCHANGED << nb, loaded, y_test, predicted, cm, classes, normalize,
                    accuracy, expected, grid, scalerVars >>

NextPlot == PlotConfusionMatrixReturns

SpecPlot == InitPlot /\ [][NextPlot]_vars

\* the text annotation of cell (i, j): the one drawn at x = j, y = i
TextAt(i, j) ==
    CHOOSE t \in {fig.texts[k] : k \in DOMAIN fig.texts} : t.x = j /\ t.y = i

\* v is the quotient a / b of two counts (NaN when b = 0)
IsQuotient(v, a, b) ==
    IF b = 0 THEN IsNaN(v) ELSE v.den > 0 /\ v.num * b = a * v.den

Cells == (DOMAIN cm) \X (DOMAIN cm[0])

\* C3: with normalize=True the rows are divided by their sums before anything
\* is rendered: the image drawn by imshow is the row-normalized matrix, the
\* one the annotations are taken from, never the raw counts.
C3_ImageIsNormalized ==
    (pc = "shown" /\ normalize) =>
        \A c \in Cells :
            /\ IsQuotient(fig.image[c[1]][c[2]], cm[c[1]][c[2]], RowSum(cm, c[1]))
            /\ fig.image[c[1]][c[2]] = TextAt(c[1], c[2]).s

\* C4: every cell is annotated with its value: the raw count cm[i][j] when
\* normalize is False, cm[i][j] divided by the sum of row i when it is True.
C4_CellAnnotations ==
    (pc = "shown") =>
        \A c \in Cells :
            /\ \E k \in DOMAIN fig.texts : fig.texts[k].x = c[2] /\ fig.texts[k].y = c[1]
            /\ IsQuotient(TextAt(c[1], c[2]).s, cm[c[1]][c[2]],
                          IF normalize THEN RowSum(cm, c[1]) ELSE 1)

\* a normalized annotation that differs from the count: 1 of a row of 3 -> 1/3
C4_Witness ==
    /\ pc = "shown" /\ normalize
    /\ \E c \in Cells :
          /\ cm[c[1]][c[2]] = 1 /\ RowSum(cm, c[1]) = 3
          /\ TextAt(c[1], c[2]).s = [num |-> 1, den |-> 3]

\* the value cell c displays, as the pair of counts a / b it is the quotient of
Shown(c) == [a |-> cm[c[1]][c[2]], b |-> IF normalize THEN RowSum(cm, c[1]) ELSE 1]
\* cell d displays no more than cell c (both defined)
NoMore(d, c) == Shown(d).a * Shown(c).b <= Shown(c).a * Shown(d).b
\* cell c displays strictly more than half of what cell m displays
MoreThanHalf(c, m) == 2 * Shown(c).a * Shown(m).b > Shown(m).a * Shown(c).b

\* C5: the annotation of a cell is white if and only if the value the cell
\* displays is strictly greater than half the maximum of the displayed matrix
\* (floating-point comparison: false as soon as a NaN is involved), and black
\* otherwise; with normalize=True value and maximum are the row-normalized ones.
C5_TextColor ==
    (pc = "shown") =>
        \A c \in Cells :
            /\ TextAt(c[1], c[2]).color \in {"white", "black"}
            /\ TextAt(c[1], c[2]).color = "white" <=>
                  /\ \A d \in Cells : Shown(d).b # 0
                  /\ \E m \in Cells :
                        /\ \A d \in Cells : NoMore(d, m)
                        /\ MoreThanHalf(c, m)

\* a cell at exactly half the maximum is black, beside a white one
C5_Witness ==
    /\ pc = "shown"
    /\ \E c \in Cells, m \in Cells :
          /\ \A d \in Cells : Shown(d).b # 0 /\ NoMore(d, m)
          /\ Shown(m).a > 0
          /\ 2 * Shown(c).a * Shown(m).b = Shown(m).a * Shown(c).b
          /\ TextAt(c[1], c[2]).color = "black"
          /\ TextAt(m[1], m[2]).color = "white"

\* C6: both axes get ticks at 0 .. len(classes)-1, and the tick at position k
\* is labelled classes[k], in the order the labels were given.
C6_TickLabels ==
    (pc = "shown") =>
        \A ax \in {fig.xticks, fig.yticks} :
            /\ DOMAIN ax.locs = 0 .. (Size(classes) - 1)
            /\ DOMAIN ax.labels = DOMAIN ax.locs
            /\ \A k \in DOMAIN ax.locs :
                  ax.locs[k] = k /\ ax.labels[k] = classes[k]

\* two different labels, out of numeric order, each on its own tick
C6_Witness ==
    /\ pc = "shown"
    /\ Size(classes) = 2 /\ classes[0] = 1 /\ classes[1] = 0
    /\ fig.xticks.locs[1] = 1 /\ fig.xticks.labels[1] = 0
    /\ fig.yticks.locs[0] = 0 /\ fig.yticks.labels[0] = 1

(***************************************************************************)
(* The cells of the two notebooks from the test-set labels on.             *)
(***************************************************************************)
\* np.unique / sklearn's unique_labels: the distinct values, ascending
SortedUnique(S) ==
    [k \in 0 .. (Cardinality(S) - 1) |->
        CHOOSE v \in S : Cardinality({w \in S : w < v}) = k]
Values(a) == {a[k] : k \in DOMAIN a}

ConfusionMatrixSwapped(y_true, y_pred) ==
    LET labels == SortedUnique(Values(y_true) \cup Values(y_pred))
    IN  [i \in DOMAIN labels |-> [j \in DOMAIN labels |->
            Cardinality({s \in DOMAIN y_true :
                            y_pred[s] = labels[i] /\ y_true[s] = labels[j]})]]

\* sklearn.metrics.confusion_matrix(y_true, y_pred): entry (i, j) counts the
\* samples of true label labels[i] predicted as labels[j], labels being the
\* sorted labels that occur in either argument
ConfusionMatrix(y_true, y_pred) ==
    LET labels == SortedUnique(Values(y_true) \cup Values(y_pred))
    IN  [i \in DOMAIN labels |-> [j \in DOMAIN labels |->
            Cardinality({s \in DOMAIN y_true :
                            y_true[s] = labels[i] /\ y_pred[s] = labels[j]})]]

ToCategoricalShifted(y, num_classes) ==
    [s \in DOMAIN y |->
        [k \in 0 .. (num_classes - 1) |-> IF k = (y[s] + 1) % num_classes THEN 1 ELSE 0]]

\* keras.utils.to_categorical(y, num_classes): one row per label, 1 in the
\* label's column and 0 elsewhere
ToCategorical(y, num_classes) ==
    [s \in DOMAIN y |->
        [k \in 0 .. (num_classes - 1) |-> IF k = y[s] THEN 1 ELSE 0]]

\* np.argmax of one row: the first index holding the largest value
ArgMax(row) ==
    CHOOSE k \in DOMAIN row :
        /\ \A j \in DOMAIN row : row[j] <= row[k]
        /\ \A j \in DOMAIN row : j < k => row[j] < row[k]
\* np.argmax(m, axis=1)
ArgMaxRows(m) == [s \in DOMAIN m |-> ArgMax(m[s])]

\* the values of a matrix, flattened (np.unique(y_test) on the one-hot matrix)
MatrixValues(m) == UNION {Values(m[s]) : s \in DOMAIN m}

\* a row of model.predict (softmax output) whose largest probability is k's
ProbRow(k) == [j \in Labels |-> IF j = k THEN 2 ELSE 1]

\* str() of a digit class
DigitStr(d) == << "0", "1", "2", "3", "4", "5", "6", "7", "8", "9" >>[d + 1]

\* digits.target_names: the classes 0 .. 9 in order
TargetNames == [k \in Labels |-> k]

\* every digit class occurs among the test labels of both data sets
TestLabelArrays == {a \in Arr(TestLen, Labels) : Values(a) = Labels}

Init ==
    /\ nb \in {"sklearn", "keras"}
    /\ y_test \in TestLabelArrays
    /\ loaded = y_test
    /\ pc = IF nb = "keras" THEN "to_categorical" ELSE "predict"
    /\ predicted = None /\ accuracy = None
    /\ cm = None /\ classes = None /\ normalize = FALSE /\ fig = None
    /\ expected = None /\ grid = << >>
    /\ X_train = None /\ y_train = None /\ X_test = None /\ scaler = None
    /\ X_train_scaled = None /\ X_test_scaled = None /\ mlp = None

\* Keras notebook: y_test = to_categorical(y_test, num_classes)
ToCategoricalCell ==
    /\ pc = "to_categorical"
    /\ y_test' = ToCategorical(y_test, NumClasses)
    /\ pc' = "predict"
    /\ UNCHANGED << nb, loaded, predicted, cm, classes, normalize, fig,
                    accuracy, expected, grid, scalerVars >>

\* scikit-learn notebook: predicted = mlp.predict(X_test_scaled), then the
\* confusion matrix and its plot.  What the classifier predicts is open.
PredictCellSklearn ==
    /\ pc = "predict" /\ nb = "sklearn"
    /\ \E p \in Arr(TestLen, Labels) :
          /\ predicted' = p
          /\ cm' = ConfusionMatrix(y_test, p)
    /\ classes' = TargetNames
    /\ normalize' = FALSE
    /\ fig' = PlotConfusionMatrix(cm', classes', normalize')
    /\ pc' = "accuracy"
    /\ UNCHANGED << nb, loaded, y_test, accuracy, expected, grid, scalerVars >>

\* Keras notebook: predicted = np.argmax(model.predict(x_test), axis=1), the
\* confusion matrix against np.argmax(y_test, axis=1), and its plot with
\* classes=np.unique(y_test)
PredictCellKeras ==
    /\ pc = "predict" /\ nb = "keras"
    /\ \E p \in Arr(TestLen, Labels) :
          /\ predicted' = ArgMaxRows([s \in DOMAIN p |-> ProbRow(p[s])])
          /\ cm' = ConfusionMatrix(ArgMaxRows(y_test), predicted')
    /\ classes' = SortedUnique(MatrixValues(y_test))
    /\ normalize' = FALSE
    /\ fig' = PlotConfusionMatrix(cm', classes', normalize')
    /\ pc' = "grid"
    /\ UNCHANGED << nb, loaded, y_test, accuracy, expected, grid, scalerVars >>

\* scikit-learn notebook: print("Accuracy = ", model_accuracy(predicted, y_test))
AccuracyCell == AccuracyCall("grid")

ExpectedOf(notebook, y) == IF notebook = "keras" THEN ArgMaxRows(y) ELSE y

\* the test-result grid, up to its loop: expected = ... and a new figure
GridStart ==
    /\ pc = "grid"
    /\ expected' = ExpectedOf(nb, y_test)
    /\ grid' = << >>
    /\ pc' = "grid_loop"
    /\ UNCHANGED << nb, loaded, y_test, predicted, cm, classes, normalize,
                    fig, accuracy, scalerVars >>

GridColorInverted(p, e) == IF p = e THEN "red" ELSE "green"

\* if predicted[i] == expected[i]: green, else: red
GridColor(p, e) == IF p = e THEN "green" ELSE "red"

\* one pass of `for i in range(64)`: subplot i + 1 and its label
GridStep ==
    /\ pc = "grid_loop"
    /\ Len(grid) < GridCells
    /\ LET i == Len(grid)
       IN  grid' = Append(grid,
                [ subplot |-> i + 1, x |-> 0, y |-> 7,
                  s |-> DigitStr(predicted[i]),
                  color |-> GridColor(predicted[i], expected[i]) ])
    /\ UNCHANGED << nb, pc, loaded, y_test, predicted, cm, classes, normalize,
                    fig, accuracy, expected, scalerVars >>

\* range(64) is exhausted
GridEnd ==
    /\ pc = "grid_loop"
    /\ Len(grid) = GridCells
    /\ pc' = "done"
    /\ UNCHANGED << nb, loaded, y_test, predicted, cm, classes, normalize,
                    fig, accuracy, expected, grid, scalerVars >>

Next ==
    \/ ToCategoricalCell
    \/ PredictCellSklearn
    \/ PredictCellKeras
    \/ AccuracyCell
    \/ GridStart
    \/ GridStep
    \/ GridEnd

Spec == Init /\ [][Next]_vars

Plotted == pc \in {"accuracy", "grid", "grid_loop", "done"}

\* the number of test samples of true class i predicted as class j
CountOf(i, j) ==
    Cardinality({s \in DOMAIN loaded : loaded[s] = i /\ predicted[s] = j})
\* the number of test samples predicted as their true class
Hits == Cardinality({s \in DOMAIN loaded : predicted[s] = loaded[s]})

\* C7: in the rendered confusion matrix the y axis is the true label and the x
\* axis the predicted label: cell (i, j), annotated at x = j, y = i, counts the
\* test samples of true class i predicted as class j; the diagonal sums to the
\* number of correct predictions, the one model_accuracy divides by n.
C7_RowsTrueColumnsPredicted ==
    Plotted =>
        /\ fig.ylabel = "True label" /\ fig.xlabel = "Predicted label"
        /\ \A i \in Labels, j \in Labels :
              /\ cm[i][j] = CountOf(i, j)
              /\ TextAt(i, j).s = [num |-> CountOf(i, j), den |-> 1]
        /\ SumTo([k \in Labels |-> TextAt(k, k).s.num], NumClasses) = Hits
        /\ (nb = "sklearn" /\ pc \in {"grid", "grid_loop", "done"}) =>
              /\ accuracy.kind = "value"
              /\ 2 * (100 * Hits - accuracy.hundredths * TestLen) <= TestLen
              /\ 2 * (100 * Hits - accuracy.hundredths * TestLen) >= -TestLen

\* a matrix that is not symmetric, with hits and misses, and the accuracy cell run
C7_Witness ==
    /\ nb = "sklearn" /\ pc = "grid"
    /\ \E i \in Labels, j \in Labels :
          /\ i # j
          /\ CountOf(i, j) > CountOf(j, i)
          /\ TextAt(i, j).s.num = CountOf(i, j)
    /\ Hits > 0 /\ Hits < TestLen

C10_OneHotRoundTrip ==
    (nb = "keras" /\ pc # "to_categorical") =>
        /\ DOMAIN y_test = DOMAIN loaded
        /\ \A s \in DOMAIN loaded :
              /\ DOMAIN y_test[s] = 0 .. (NumClasses - 1)
              /\ \A k \in DOMAIN y_test[s] :
                    y_test[s][k] = IF k = loaded[s] THEN 1 ELSE 0
        /\ Plotted => \A i \in Labels, j \in Labels : cm[i][j] = CountOf(i, j)
        /\ pc \in {"grid_loop", "done"} => expected = loaded

\* the grid's expected labels of the Keras notebook, taken from one-hot rows
C10_Witness ==
    /\ nb = "keras" /\ pc = "grid_loop"
    /\ expected = loaded
    /\ \E s \in DOMAIN loaded : loaded[s] = 1 /\ y_test[s][1] = 1 /\ y_test[s][0] = 0

(***************************************************************************)
(* The StandardScaler and MLPClassifier cells of the scikit-learn          *)
(* notebook, on one feature column.  SpecScaler runs the cells twice, side *)
(* by side, on the same training data and two test sets.                   *)
(***************************************************************************)
Pixels == 0 .. MaxPixel
Runs == {1, 2}
\* the test split is the smaller one (test_size=0.2)
ScalerTestLen == TrainLen - 1

Concat(a, b) ==
    [k \in 0 .. (Size(a) + Size(b) - 1) |->
        IF k < Size(a) THEN a[k] ELSE b[k - Size(a)]]

FitInputAll(Xtr, Xte) == Concat(Xtr, Xte)

\* scaler.fit(X_train): the argument of fit
FitInput(Xtr, Xte) == Xtr

\* StandardScaler.fit(X): mean_ and var_ (population variance) of the column
StandardScalerFit(X) ==
    LET n == Size(X)
        sum == SumTo(X, n)
        sumsq == SumTo([k \in DOMAIN X |-> X[k] * X[k]], n)
    IN  [ mean_ |-> Frac(sum, n),
          var_ |-> Frac(n * sumsq - sum * sum, n * n),
          n_samples_seen_ |-> n ]

Sign(a) == IF a > 0 THEN 1 ELSE IF a < 0 THEN -1 ELSE 0

\* StandardScaler.transform of one value: z = (x - mean_) / scale_, where
\* scale_ = sqrt(var_), or 1 for a constant column.  z is kept exactly, as its
\* sign and its square.
TransformValue(sc, x) ==
    LET c == x * sc.mean_.den - sc.mean_.num     \* (x - mean_) * mean_.den
        d == sc.mean_.den * sc.mean_.den
    IN  [ sign |-> Sign(c),
          square |-> IF sc.var_.num = 0
                     THEN Frac(c * c, d)
                     ELSE Frac(c * c * sc.var_.den, d * sc.var_.num) ]
Transform(sc, X) == [k \in DOMAIN X |-> TransformValue(sc, X[k])]

\* MLPClassifier(hidden_layer_sizes=(30,30,30), activation='logistic',
\* max_iter=1000, random_state=1).fit(X, y): with the random state fixed the
\* fitted network is a function of the training arrays, which stand for it
MlpFit(X, y) == [ random_state |-> 1, fitted_X |-> X, fitted_y |-> y ]

InitScaler ==
    /\ nb = "sklearn"
    /\ pc = "scaler_fit"
    /\ X_train \in Arr(TrainLen, Pixels)
    /\ y_train \in Arr(TrainLen, Labels)
    /\ X_test \in [Runs -> Arr(ScalerTestLen, Pixels)]
    /\ scaler = [r \in Runs |-> None]
    /\ X_train_scaled = [r \in Runs |-> None]
    /\ X_test_scaled = [r \in Runs |-> None]
    /\ mlp = [r \in Runs |-> None]
    /\ loaded = None /\ y_test = None /\ predicted = None /\ accuracy = None
    /\ cm = None /\ classes = None /\ normalize = FALSE /\ fig = None
    /\ expected = None /\ grid = << >>

otherVars == << nb, loaded, y_test, predicted, cm, classes, normalize, fig,
                accuracy, expected, grid >>

\* scaler = StandardScaler(); scaler.fit(X_train)
ScalerFit ==
    /\ pc = "scaler_fit"
    /\ scaler' = [r \in Runs |-> StandardScalerFit(FitInput(X_train, X_test[r]))]
    /\ pc' = "transform_train"
    /\ UNCHANGED << X_train, y_train, X_test, X_train_scaled, X_test_scaled,
                    mlp, otherVars >>

\* X_train_scaled = scaler.transform(X_train)
TransformTrain ==
    /\ pc = "transform_train"
    /\ X_train_scaled' = [r \in Runs |-> Transform(scaler[r], X_train)]
    /\ pc' = "transform_test"
    /\ UNCHANGED << X_train, y_train, X_test, scaler, X_test_scaled, mlp,
                    otherVars >>

\* X_test_scaled = scaler.transform(X_test)
TransformTest ==
    /\ pc = "transform_test"
    /\ X_test_scaled' = [r \in Runs |-> Transform(scaler[r], X_test[r])]
    /\ pc' = "mlp_fit"
    /\ UNCHANGED << X_train, y_train, X_test, scaler, X_train_scaled, mlp,
                    otherVars >>

\* mlp = MLPClassifier(...); mlp.fit(X_train_scaled, y_train)
MlpFitCell ==
    /\ pc = "mlp_fit"
    /\ mlp' = [r \in Runs |-> MlpFit(X_train_scaled[r], y_train)]
    /\ pc' = "trained"
    /\ UNCHANGED << X_train, y_train, X_test, scaler, X_train_scaled,
                    X_test_scaled, otherVars >>

NextScaler == ScalerFit \/ TransformTrain \/ TransformTest \/ MlpFitCell

SpecScaler == InitScaler /\ [][NextScaler]_vars

TrainSum == SumTo(X_train, TrainLen)

C11_OneLabelPerClass ==
    Plotted =>
        /\ Size(classes) = Shape0(cm)
        /\ Size(classes) = Shape1(cm)
        /\ \A k \in Labels :
              /\ k \in DOMAIN fig.xticks.labels /\ fig.xticks.labels[k] = k
              /\ k \in DOMAIN fig.yticks.labels /\ fig.yticks.labels[k] = k

\* the scikit-learn call site (classes=digits.target_names) does pass one
\* label per class; the Keras one (classes=np.unique(y_test)) is the one that
\* does not
SklearnLabelsMatch ==
    (nb = "sklearn" /\ Plotted) =>
        /\ Size(classes) = Shape0(cm)
        /\ \A k \in Labels : fig.xticks.labels[k] = k

RECURSIVE ProdDen(_, _)
\* the product of the denominators of f[0] .. f[n-1]
ProdDen(f, n) == IF n = 0 THEN 1 ELSE ProdDen(f, n - 1) * f[n - 1].den

\* the annotations of row i, by column
RowTexts(i) == [j \in DOMAIN cm[i] |-> TextAt(i, j).s]
\* the counts of row i add up to zero
ZeroRow(i) == \A j \in DOMAIN cm[i] : cm[i][j] = 0

\* C12: with normalize=True and non-negative counts whose row sums are all
\* non-zero, every annotated value lies between 0 and 1 and the annotated
\* values of each row add up to 1; a row whose sum is zero is not guarded
\* against: it is divided by zero and its annotations are NaN.
C12_NormalizedRows ==
    (pc = "shown" /\ normalize) =>
        /\ (\A i \in DOMAIN cm : ~ZeroRow(i)) =>
              \A i \in DOMAIN cm :
                  LET t == RowTexts(i)
                      D == ProdDen(t, Size(t))
                  IN  /\ \A j \in DOMAIN t :
                            t[j].den > 0 /\ 0 <= t[j].num /\ t[j].num <= t[j].den
                      /\ SumTo([j \in DOMAIN t |-> t[j].num * (D \div t[j].den)],
                               Size(t)) = D
        /\ \A i \in DOMAIN cm :
              ZeroRow(i) => \A j \in DOMAIN cm[i] : RowTexts(i)[j] = NaN

\* two rows of different non-zero sums, with values strictly between 0 and 1
C12_Witness ==
    /\ pc = "shown" /\ normalize
    /\ Shape0(cm) = 2 /\ Shape1(cm) = 2
    /\ cm[0] = (0 :> 1 @@ 1 :> 2) /\ cm[1] = (0 :> 1 @@ 1 :> 1)
    /\ RowTexts(0)[0] = [num |-> 1, den |-> 3] /\ RowTexts(0)[1] = [num |-> 2, den |-> 3]
    /\ RowTexts(1)[0] = [num |-> 1, den |-> 2]

\* the unguarded case: a zero row beside a counted one, annotated NaN
ZeroRowReached ==
    /\ pc = "shown" /\ normalize
    /\ \E i \in DOMAIN cm, l \in DOMAIN cm :
          ZeroRow(i) /\ ~ZeroRow(l) /\ RowTexts(i)[0] = NaN /\ RowTexts(l)[0] # NaN

\* C13: plot_confusion_matrix draws exactly one annotation per cell: for a
\* matrix of R rows and C columns it emits R * C texts, one for each (i, j)
\* with 0 <= i < R and 0 <= j < C, at x = j, y = i, none outside the grid and
\* none twice, whatever len(classes) is.
C13_OneTextPerCell ==
    (pc = "shown") =>
        LET R == Shape0(cm)
            C == Shape1(cm)
        IN  /\ Len(fig.texts) = R * C
            /\ \A k \in DOMAIN fig.texts :
                  /\ fig.texts[k].x \in 0 .. (C - 1)
                  /\ fig.texts[k].y \in 0 .. (R - 1)
            /\ \A i \in 0 .. (R - 1), j \in 0 .. (C - 1) :
                  Cardinality({k \in DOMAIN fig.texts :
                                  fig.texts[k].x = j /\ fig.texts[k].y = i}) = 1

\* a matrix that is not square, drawn with more labels than it has columns
C13_Witness ==
    /\ pc = "shown"
    /\ Shape0(cm) = 1 /\ Shape1(cm) = 2
    /\ Size(classes) = 3
    /\ Len(fig.texts) = 2
    /\ fig.texts[2].x = 1 /\ fig.texts[2].y = 0

====
